---- MODULE Spec2Model ----
(***************************************************************************)
(* Verification model of Gigamonkey's ledger (include/gigamonkey/          *)
(* ledger.hpp), header/block rules (src/gigamonkey/timechain.cpp) and the  *)
(* WIF key converter (src/gigamonkey/wif.cpp).                             *)
(*                                                                         *)
(* The library is a set of value types and functions over them.  Each      *)
(* group of operations has its own specification: objects are built by     *)
(* the constructors of the source from inputs drawn from bounded sets and  *)
(* then queried by the methods of the source.                              *)
(***************************************************************************)
EXTENDS Integers, Sequences, FiniteSets, TLC

VARIABLES
    entry,      \* ledger::double_entry under test
    other,      \* a second double_entry, right operand of the comparisons
    ctor,       \* which constructor built entry
    answer,     \* result of the last query on entry
    Ledger,     \* the ledger implementation's store, txid -> double_entry
    vert,       \* ledger::vertex under test
    built,      \* how vert was built
    edges,      \* result of vertex::prevouts()
    total,      \* result of vertex::spent()
    slice,      \* slice<80> given to header::valid
    blk,        \* the block given to block::valid
    verdict,    \* result of header::valid / block::valid
    wifArg,     \* arguments of wif::write
    wifText,    \* string produced by wif::write
    wifBack     \* wif returned by wif::read

vars == <<entry, other, ctor, answer, Ledger, vert, built, edges, total,
          slice, blk, verdict, wifArg, wifText, wifBack>>

----------------------------------------------------------------------------
(* Bounds of the model *)

\* digests range over 0..MaxDigest, 0 being the all-zero digest
MaxDigest == 3
\* leaf indices of Merkle proofs range over 0..MaxIndex
MaxIndex == 1
\* header timestamps range over 0..MaxTime
MaxTime == 1
\* number of inputs of the transaction a vertex is built for
MaxInputs == 2
\* output values range over 1..MaxValue
MaxValue == 2
\* blocks hold up to MaxTxs transactions
MaxTxs == 2
\* the byte of a secret that varies ranges over 0..MaxSecretByte
MaxSecretByte == 2

----------------------------------------------------------------------------
(* Sequences of numbers *)

RECURSIVE SumSeq(_)
SumSeq(s) == IF s = <<>> THEN 0 ELSE Head(s) + SumSeq(Tail(s))

Zeros(n) == [i \in 1..n |-> 0]

Digests == 0..MaxDigest

\* digest<32>::valid: a digest is valid when it is not all zero
digest_valid(d) == d # 0

\* sum of t[lo..hi], halving the range
RECURSIVE RangeSum(_, _, _)
RangeSum(t, lo, hi) ==
    IF lo > hi THEN 0
    ELSE IF lo = hi THEN t[lo]
    ELSE RangeSum(t, lo, (lo + hi) \div 2) + RangeSum(t, (lo + hi) \div 2 + 1, hi)

\* a position dependent mix of the bytes of s
Mix(s) ==
    (7 + RangeSum([i \in 1..Len(s) |-> ((37 * i + 11) * (s[i] + 1)) % 1009],
                  1, Len(s))) % 1009

\* the 256 bit hash, scaled to the digests of the model; never zero
Hash256(s) == (Mix(s) % MaxDigest) + 1

----------------------------------------------------------------------------
(* Block headers: the 80 byte wire format and the header rule *)

\* little endian bytes of an integer of n bytes (two's complement)
LittleEndian(v, n) == [i \in 1..n |-> (v \div (256 ^ (i - 1))) % 256]

RECURSIVE FromLittleEndian(_)
FromLittleEndian(s) ==
    IF s = <<>> THEN 0 ELSE Head(s) + 256 * FromLittleEndian(Tail(s))

\* int32_little: the top byte carries the sign
FromLittleEndianSigned(s) ==
    FromLittleEndian(SubSeq(s, 1, Len(s) - 1))
      + (256 ^ (Len(s) - 1))
          * (IF s[Len(s)] >= 128 THEN s[Len(s)] - 256 ELSE s[Len(s)])

\* a digest of the model as the 32 bytes of a digest256
DigestBytes(d) == [i \in 1..32 |-> IF i = 1 THEN d ELSE 0]

DigestOfBytes(s) == s[1]

\* bitcoin::header::write: version, previous, merkle root, timestamp,
\* target (bits), nonce
header_write(h) ==
    LittleEndian(h.Version, 4) \o DigestBytes(h.Previous)
      \o DigestBytes(h.MerkleRoot) \o LittleEndian(h.Timestamp, 4)
      \o LittleEndian(h.Target, 4) \o LittleEndian(h.Nonce, 4)

\* bitcoin::header::read
header_read(s) ==
    [Version    |-> FromLittleEndianSigned(SubSeq(s, 1, 4)),
     Previous   |-> DigestOfBytes(SubSeq(s, 5, 36)),
     MerkleRoot |-> DigestOfBytes(SubSeq(s, 37, 68)),
     Timestamp  |-> FromLittleEndian(SubSeq(s, 69, 72)),
     Target     |-> FromLittleEndian(SubSeq(s, 73, 76)),
     Nonce      |-> FromLittleEndian(SubSeq(s, 77, 80))]

\* header{}: every field value-initialised
DefaultHeader ==
    [Version |-> 0, Previous |-> 0, MerkleRoot |-> 0, Timestamp |-> 0,
     Target |-> 0, Nonce |-> 0]

\* work::candidate::valid: the hash of the 80 bytes lies below the target
\* that the bits field encodes
work_candidate_valid(h) == Hash256(h) < FromLittleEndian(SubSeq(h, 73, 76))

\* timechain.cpp: header_valid_work
header_valid_work(h) == work_candidate_valid(h)

\* the timestamp is not looked at
header_valid_no_time(h) == h.Version >= 1 /\ digest_valid(h.MerkleRoot)

\* timechain.cpp: header_valid
header_valid(h) ==
    h.Version >= 1 /\ digest_valid(h.MerkleRoot)
      /\ h.Timestamp # DefaultHeader.Timestamp

\* timechain.cpp: header::valid(slice<80>)
header_valid_slice(h) == header_valid(header_read(h)) /\ header_valid_work(h)

\* timechain.cpp: bitcoin::header::valid() const
Header_valid(h) == header_valid_work(header_write(h)) /\ header_valid(h)

\* targets: unreachable, reachable by some hashes, reachable by every hash
Targets == {0, 2, MaxDigest + 1}

Headers ==
    [Version : -1..2, Previous : {0}, MerkleRoot : Digests,
     Timestamp : 0..MaxTime, Target : Targets, Nonce : 0..1]

\* header ==: all fields equal
header_eq(a, b) == a = b

\* header <: block time first, the remaining fields break ties
header_key(h) ==
    <<h.Timestamp, h.Version, h.Previous, h.MerkleRoot, h.Target, h.Nonce>>

RECURSIVE LexLess(_, _)
LexLess(s, t) ==
    IF s = <<>> THEN FALSE
    ELSE IF Head(s) # Head(t) THEN Head(s) < Head(t)
    ELSE LexLess(Tail(s), Tail(t))

header_lt(a, b) == LexLess(header_key(a), header_key(b))
header_le(a, b) == header_lt(a, b) \/ header_eq(a, b)
header_gt(a, b) == header_lt(b, a)
header_ge(a, b) == header_le(b, a)

----------------------------------------------------------------------------
(* Merkle proofs *)

\* Merkle::proof{}
DefaultProof ==
    [Branch |-> [Leaf |-> [Digest |-> 0, Index |-> 0], Digests |-> <<>>],
     Root |-> 0]

\* hash of two concatenated digests
hash_concatinated(a, b) == Hash256(<<a, b>>)

\* Merkle::branch::root: hash the leaf up the path, the index giving the side
RECURSIVE branch_root(_, _, _)
branch_root(digest, index, path) ==
    IF path = <<>> THEN digest
    ELSE branch_root(IF index % 2 = 0
                         THEN hash_concatinated(digest, Head(path))
                         ELSE hash_concatinated(Head(path), digest),
                     index \div 2, Tail(path))

\* Merkle::proof::valid: the branch hashes from the leaf to the root
proof_valid(p) ==
    /\ digest_valid(p.Root)
    /\ digest_valid(p.Branch.Leaf.Digest)
    /\ branch_root(p.Branch.Leaf.Digest, p.Branch.Leaf.Index,
                   p.Branch.Digests) = p.Root

\* Merkle::proof::index
proof_index(p) == p.Branch.Leaf.Index

Proofs ==
    { [Branch |-> [Leaf |-> [Digest |-> d, Index |-> i], Digests |-> path],
       Root |-> r] :
         d \in Digests, i \in 0..MaxIndex, path \in {<<>>, <<1>>},
         r \in Digests }

----------------------------------------------------------------------------
(* Transactions: serialisation, parsing and the transaction id *)

\* ptr<bytes>: a null pointer, or a pointer to a byte sequence
nullptr == [Null |-> TRUE, Data |-> <<>>]
ptr(b) == [Null |-> FALSE, Data |-> b]

Input(ref, i) == [Outpoint |-> [Reference |-> ref, Index |-> i]]
Output(v) == [Value |-> v]

\* output{}
DefaultOutput == Output(0)

RECURSIVE WriteInputs(_)
WriteInputs(ins) ==
    IF ins = <<>> THEN <<>>
    ELSE <<Head(ins).Outpoint.Reference, Head(ins).Outpoint.Index>>
           \o WriteInputs(Tail(ins))

\* transaction::write: input count, the outpoints, output count, the values
transaction_write(tx) ==
    <<Len(tx.Inputs)>> \o WriteInputs(tx.Inputs)
      \o <<Len(tx.Outputs)>> \o [k \in 1..Len(tx.Outputs) |-> tx.Outputs[k].Value]

\* whether the bytes parse as a transaction
transaction_parses(b) ==
    /\ Len(b) >= 2
    /\ Len(b) >= 2 + 2 * b[1]
    /\ Len(b) = 2 + 2 * b[1] + b[2 + 2 * b[1]]

\* transaction::read: the parsed transaction, empty when the bytes do not parse
transaction_read(b) ==
    IF transaction_parses(b)
    THEN [Inputs  |-> [k \in 1..b[1] |-> Input(b[2 * k], b[2 * k + 1])],
          Outputs |-> [k \in 1..b[2 + 2 * b[1]] |-> Output(b[2 + 2 * b[1] + k])]]
    ELSE [Inputs |-> <<>>, Outputs |-> <<>>]

\* transaction::id: the hash of the serialised transaction
transaction_id(b) == Hash256(b)

----------------------------------------------------------------------------
(* ledger::double_entry *)

\* double_entry()
double_entry0 == [Bytes |-> nullptr, Proof |-> DefaultProof, Header |-> DefaultHeader]

\* double_entry(ptr<bytes> t, Merkle::proof p, const header& h)
double_entry3(t, p, h) == [Bytes |-> t, Proof |-> p, Header |-> h]

\* double_entry(ptr<bytes> t)
double_entry1(t) == [Bytes |-> t, Proof |-> DefaultProof, Header |-> DefaultHeader]

\* double_entry::valid
double_entry_valid(e) == ~e.Bytes.Null

\* double_entry::id
double_entry_id(e) == transaction_id(e.Bytes.Data)

\* the slip of writing || for the first &&
confirmed_or(e) ==
    double_entry_valid(e)
      \/ (Header_valid(e.Header)
            /\ double_entry_id(e) = e.Proof.Branch.Leaf.Digest
            /\ proof_valid(e.Proof) /\ e.Proof.Root = e.Header.MerkleRoot)

\* the check of the proof's root against the header left out
confirmed_unlinked(e) ==
    double_entry_valid(e) /\ Header_valid(e.Header)
      /\ double_entry_id(e) = e.Proof.Branch.Leaf.Digest /\ proof_valid(e.Proof)

\* double_entry::confirmed
double_entry_confirmed(e) ==
    double_entry_valid(e) /\ Header_valid(e.Header)
      /\ double_entry_id(e) = e.Proof.Branch.Leaf.Digest
      /\ proof_valid(e.Proof) /\ e.Proof.Root = e.Header.MerkleRoot

\* double_entry::inputs, double_entry::outputs
double_entry_inputs(e) == transaction_read(e.Bytes.Data).Inputs
double_entry_outputs(e) == transaction_read(e.Bytes.Data).Outputs

\* double_entry::output(uint32)
double_entry_output(e, i) ==
    IF ~transaction_parses(e.Bytes.Data) \/ Len(double_entry_outputs(e)) <= i
    THEN DefaultOutput
    ELSE double_entry_outputs(e)[i + 1]

\* double_entry::operator==
double_entry_eq(a, b) ==
    header_eq(a.Header, b.Header) /\ proof_index(a.Proof) = proof_index(b.Proof)

\* the proof index forgotten: the headers alone are compared
lt_header_only(a, b) == header_lt(a.Header, b.Header)

\* double_entry::operator<
double_entry_lt(a, b) ==
    IF header_eq(a.Header, b.Header)
    THEN proof_index(a.Proof) < proof_index(b.Proof)
    ELSE header_lt(a.Header, b.Header)

\* double_entry::operator<=
double_entry_le(a, b) ==
    IF header_eq(a.Header, b.Header)
    THEN proof_index(a.Proof) <= proof_index(b.Proof)
    ELSE header_le(a.Header, b.Header)

\* double_entry::operator>
double_entry_gt(a, b) ==
    IF header_eq(a.Header, b.Header)
    THEN proof_index(a.Proof) > proof_index(b.Proof)
    ELSE header_gt(a.Header, b.Header)

\* double_entry::operator>=
double_entry_ge(a, b) ==
    IF header_eq(a.Header, b.Header)
    THEN proof_index(a.Proof) >= proof_index(b.Proof)
    ELSE header_ge(a.Header, b.Header)

\* double_entry::operator!=
double_entry_ne(a, b) == ~double_entry_eq(a, b)

----------------------------------------------------------------------------
(* The ledger's store and data::map *)

TxIds == 1..MaxDigest

\* data::entry<txid, double_entry>
Entry(k, v) == [Key |-> k, Value |-> v]

\* ledger::transaction: the record stored under the id, an invalid record
\* when the id is unknown
transaction(id) == Entry(id, Ledger[id])

\* data::map{}
EmptyMap == [k \in {} |-> double_entry0]

\* data::map::insert(entry)
map_insert(m, e) ==
    [k \in DOMAIN m \cup {e.Key} |-> IF k = e.Key THEN e.Value ELSE m[k]]

\* data::map::operator[]: the value under the key, a default value when the
\* key is absent
map_at(m, k) == IF k \in DOMAIN m THEN m[k] ELSE double_entry0

----------------------------------------------------------------------------
(* ledger::prevout and ledger::vertex *)

\* prevout(entry p, uint32_little i, input in)
prevout(p, i, in) == [Previous |-> p, Index |-> i, Input |-> in]

\* prevout::operator output
prevout_output(p) ==
    double_entry_output(p.Previous.Value, p.Input.Outpoint.Index)

\* prevout::spent
prevout_spent(p) == prevout_output(p).Value

\* prevout::valid
prevout_valid(p) ==
    double_entry_valid(p.Previous.Value)
      /\ p.Input.Outpoint.Reference = p.Previous.Key

\* vertex()
vertex0 == [Entry |-> double_entry0, Previous |-> EmptyMap]

\* vertex(const double_entry& d, data::map<txid, double_entry> p)
vertex(d, p) == [Entry |-> d, Previous |-> p]

\* one SpendEdge for the k-th input of a list of inputs
EdgeOf(v, inputs, k) ==
    prevout(Entry(inputs[k].Outpoint.Reference,
                  map_at(v.Previous, inputs[k].Outpoint.Reference)),
            k - 1, inputs[k])

\* every edge takes the first input
prevouts_first(v) ==
    [k \in 1..Len(double_entry_inputs(v.Entry)) |->
        EdgeOf(v, double_entry_inputs(v.Entry), 1)]

\* vertex::prevouts
vertex_prevouts(v) ==
    [k \in 1..Len(double_entry_inputs(v.Entry)) |->
        EdgeOf(v, double_entry_inputs(v.Entry), k)]

\* the lambda of vertex::spent: the accumulator x is not used
spent_step(x, p) == prevout_spent(p)

\* data::fold(f, x, list) with that lambda: f applied from the left
RECURSIVE fold_spent(_, _)
fold_spent(x, l) ==
    IF l = <<>> THEN x ELSE fold_spent(spent_step(x, Head(l)), Tail(l))

\* vertex::spent
vertex_spent(v) == fold_spent(0, vertex_prevouts(v))

\* vertex::spent dereferences the bytes of every dependency record
spent_defined(v) ==
    \A k \in 1..Len(vertex_prevouts(v)) :
        double_entry_valid(vertex_prevouts(v)[k].Previous.Value)

RECURSIVE InsertAll(_, _)
InsertAll(p, in) ==
    IF in = <<>> THEN p
    ELSE InsertAll(map_insert(p, transaction(Head(in).Outpoint.Reference)),
                   Tail(in))

\* unknown ids are left out of the map
RECURSIVE InsertKnown(_, _)
InsertKnown(p, in) ==
    IF in = <<>> THEN p
    ELSE InsertKnown(IF double_entry_valid(transaction(Head(in).Outpoint.Reference).Value)
                       THEN map_insert(p, transaction(Head(in).Outpoint.Reference))
                       ELSE p,
                     Tail(in))

make_vertex_known(d) == vertex(d, InsertKnown(EmptyMap, double_entry_inputs(d)))

\* ledger::make_vertex
make_vertex(d) == vertex(d, InsertAll(EmptyMap, double_entry_inputs(d)))

----------------------------------------------------------------------------
(* Blocks: the block rule of timechain.cpp and the functions it calls *)

\* the result of a call that may throw data::method::unimplemented
Threw == [threw |-> TRUE, value |-> <<>>]
Returned(v) == [threw |-> FALSE, value |-> v]

\* block::header as if it were implemented: the first 80 bytes
block_header_parsed(b) == Returned(b.Header)

\* timechain.cpp: block::header throws unimplemented
block_header(b) == Threw

\* timechain.cpp: block::transactions throws unimplemented
block_transactions(b) == Threw

\* timechain.cpp: transaction::coinbase throws unimplemented
transaction_coinbase(tx) == Threw

\* timechain.cpp: transaction::valid throws unimplemented
transaction_valid(tx) == Threw

\* header::merkle_root(slice<80>)
header_merkle_root(h) == DigestOfBytes(SubSeq(h, 37, 68))

\* one level of the Merkle tree: neighbours hashed in pairs, the last one
\* with itself when the level is odd
merkle_level(l) ==
    [k \in 1..((Len(l) + 1) \div 2) |->
        hash_concatinated(l[2 * k - 1],
                          IF 2 * k <= Len(l) THEN l[2 * k] ELSE l[2 * k - 1])]

RECURSIVE merkle_reduce(_)
merkle_reduce(l) == IF Len(l) <= 1 THEN l ELSE merkle_reduce(merkle_level(l))

\* merkle_root(txs): the root of the tree over the transaction ids
merkle_root(txs) ==
    IF txs = <<>> THEN 0
    ELSE merkle_reduce([k \in 1..Len(txs) |-> transaction_id(txs[k])])[1]

\* the loop of block::valid over the transactions after the first:
\* "unimplemented", "false", or "true" when every one of them is valid
RECURSIVE rest_valid(_, _)
rest_valid(txs, i) ==
    IF i > Len(txs) THEN "true"
    ELSE IF transaction_valid(txs[i]).threw THEN "unimplemented"
    ELSE IF ~transaction_valid(txs[i]).value THEN "false"
    ELSE rest_valid(txs, i + 1)

\* block::valid from the transaction list on
block_valid_body(h, txs) ==
    IF Len(txs) = 0 THEN "false"
    ELSE IF transaction_coinbase(txs[1]).threw THEN "unimplemented"
    ELSE IF ~transaction_coinbase(txs[1]).value THEN "false"
    ELSE IF rest_valid(txs, 2) # "true" THEN rest_valid(txs, 2)
    ELSE IF header_merkle_root(h) = merkle_root(txs) THEN "true" ELSE "false"

\* timechain.cpp: block::valid; an exception of a callee leaves the call
block_valid(b) ==
    IF block_header(b).threw THEN "unimplemented"
    ELSE IF ~header_valid_slice(block_header(b).value) THEN "false"
    ELSE IF block_transactions(b).threw THEN "unimplemented"
    ELSE block_valid_body(block_header(b).value, block_transactions(b).value)

----------------------------------------------------------------------------
(* Base58Check *)

Alphabet ==
    <<"1", "2", "3", "4", "5", "6", "7", "8", "9", "A", "B", "C", "D", "E",
      "F", "G", "H", "J", "K", "L", "M", "N", "P", "Q", "R", "S", "T", "U",
      "V", "W", "X", "Y", "Z", "a", "b", "c", "d", "e", "f", "g", "h", "i",
      "j", "k", "m", "n", "o", "p", "q", "r", "s", "t", "u", "v", "w", "x",
      "y", "z">>

DigitOf(c) == (CHOOSE i \in 1..58 : Alphabet[i] = c) - 1

\* digits are converted three at a time: 58^3
Radix3 == 58 * 58 * 58

\* number of leading zeros of a sequence
LeadingZeros(s) ==
    IF \A i \in 1..Len(s) : s[i] = 0 THEN Len(s)
    ELSE (CHOOSE i \in 1..Len(s) : s[i] # 0 /\ \A j \in 1..(i - 1) : s[j] = 0) - 1

\* big endian base 256 number num divided by Radix3, digit i onwards:
\* the quotient's digits followed by the remainder
RECURSIVE DivideFrom(_, _, _)
DivideFrom(num, i, rem) ==
    IF i > Len(num) THEN <<rem>>
    ELSE <<(rem * 256 + num[i]) \div Radix3>>
           \o DivideFrom(num, i + 1, (rem * 256 + num[i]) % Radix3)

\* the base 58 digits of a big endian base 256 number, three per division
RECURSIVE ToBase58(_)
ToBase58(num) ==
    IF \A i \in 1..Len(num) : num[i] = 0 THEN <<>>
    ELSE LET qr == DivideFrom(num, 1, 0)
             r == qr[Len(qr)]
         IN ToBase58(SubSeq(qr, 1, Len(num)))
              \o <<r \div (58 * 58), (r \div 58) % 58, r % 58>>

\* big endian base 256 number num times Radix3 plus add, from digit i back
\* to the first: the carry out followed by the digits
RECURSIVE MultiplyFrom(_, _, _)
MultiplyFrom(num, i, carry) ==
    IF i = 0 THEN <<carry>>
    ELSE MultiplyFrom(num, i - 1, (num[i] * Radix3 + carry) \div 256)
           \o <<(num[i] * Radix3 + carry) % 256>>

\* the big endian bytes, width of them, of base 58 digits taken three at a time
RECURSIVE FromBase58(_, _, _)
FromBase58(digits, i, num) ==
    IF i > Len(digits) \/ Len(num) = 0 THEN num
    ELSE FromBase58(digits, i + 3,
             Tail(MultiplyFrom(num, Len(num),
                      58 * 58 * digits[i] + 58 * digits[i + 1] + digits[i + 2])))

\* base58::encode: a "1" for every leading zero byte, then the digits of
\* the number the bytes spell
base58_encode(bytes) ==
    LET digits == ToBase58(bytes)
        body   == SubSeq(digits, LeadingZeros(digits) + 1, Len(digits))
    IN [i \in 1..LeadingZeros(bytes) |-> "1"]
         \o [i \in 1..Len(body) |-> Alphabet[body[i] + 1]]

\* base58::decode: a zero byte for every leading "1", then the bytes of the
\* number the remaining digits spell
base58_decode(text) ==
    LET digits == [i \in 1..Len(text) |-> DigitOf(text[i])]
        padded == [i \in 1..((3 - (Len(digits) % 3)) % 3) |-> 0] \o digits
        bytes  == FromBase58(padded, 1, Zeros((3 * Len(padded)) \div 4 + 1))
    IN Zeros(LeadingZeros(digits))
         \o SubSeq(bytes, LeadingZeros(bytes) + 1, Len(bytes))

\* the four checksum bytes of Base58Check
checksum(data) == LittleEndian(1031 * Mix(data) + Len(data), 4)

\* base58::check_encode
check_encode(data) == base58_encode(data \o checksum(data))

\* base58::check_decode: whether the checksum holds, and the data before it
check_decode(text) ==
    LET raw == base58_decode(text)
    IN IF Len(raw) < 4 THEN [ok |-> FALSE, data |-> <<>>]
       ELSE [ok   |-> checksum(SubSeq(raw, 1, Len(raw) - 4))
                        = SubSeq(raw, Len(raw) - 3, Len(raw)),
             data |-> SubSeq(raw, 1, Len(raw) - 4)]

----------------------------------------------------------------------------
(* wif.cpp *)

SecretSize == 32
CompressedSuffix == 1
UncompressedSize == 1 + SecretSize
CompressedSize == UncompressedSize + 1

\* wif{}
DefaultWif == [Prefix |-> 0, Secret |-> Zeros(SecretSize), Compressed |-> FALSE]

\* the compression flag is not written
wif_write_plain(prefix, secret, compressed) ==
    check_encode(<<prefix>> \o secret)

\* wif::write
wif_write(prefix, secret, compressed) ==
    check_encode(
        SubSeq(<<prefix>> \o secret \o (IF compressed THEN <<CompressedSuffix>> ELSE <<>>),
               1, IF compressed THEN CompressedSize ELSE UncompressedSize))

\* wif::read; fault: the reader runs past the end of the decoded bytes
wif_read(s) ==
    LET decoded == check_decode(s)
        data    == decoded.data
    IN IF ~decoded.ok THEN [fault |-> FALSE, value |-> DefaultWif]
       ELSE IF Len(data) < 1 + SecretSize THEN [fault |-> TRUE, value |-> DefaultWif]
       ELSE IF Len(data) > 1 + SecretSize
       THEN IF data[2 + SecretSize] # CompressedSuffix
            THEN [fault |-> FALSE, value |-> DefaultWif]
            ELSE [fault |-> FALSE,
                  value |-> [Prefix     |-> data[1],
                             Secret     |-> SubSeq(data, 2, 1 + SecretSize),
                             Compressed |-> TRUE]]
       ELSE [fault |-> FALSE,
             value |-> [Prefix     |-> data[1],
                        Secret     |-> SubSeq(data, 2, 1 + SecretSize),
                        Compressed |-> FALSE]]

----------------------------------------------------------------------------
(* Values the variables hold while their group of operations is not used *)

NoAnswer == [asked |-> "none"]
NoEdges == [done |-> FALSE, list |-> <<>>, valid |-> <<>>]
NoTotal == [done |-> FALSE, fault |-> FALSE, value |-> 0]
NoLedger == [k \in TxIds |-> double_entry0]
NoBlock == [Header |-> <<>>, Txs |-> <<>>]
NoWif == [Prefix |-> 0, Secret |-> <<>>, Compressed |-> FALSE]
NotRead == [read |-> FALSE, fault |-> FALSE, value |-> NoWif]

IdleEntry ==
    entry = double_entry0 /\ other = double_entry0 /\ ctor = "default"
      /\ answer = NoAnswer

IdleGraph ==
    Ledger = NoLedger /\ vert = vertex0 /\ built = "default"
      /\ edges = NoEdges /\ total = NoTotal

IdleRule == slice = <<>> /\ blk = NoBlock /\ verdict = "none"

IdleWif ==
    wifArg = NoWif /\ wifText = <<>> /\ wifBack = NotRead

entryVars == <<entry, other, ctor, answer>>
graphVars == <<Ledger, vert, built, edges, total>>
ruleVars == <<slice, blk, verdict>>
wifVars == <<wifArg, wifText, wifBack>>

----------------------------------------------------------------------------
(* Confirmation: a double_entry is constructed once and asked confirmed() *)

\* the transactions whose bytes the records of this group hold
EntryTxs ==
    { [Inputs |-> <<>>, Outputs |-> <<Output(v)>>] : v \in 1..MaxValue }

EntryBytes == {nullptr} \cup { ptr(transaction_write(tx)) : tx \in EntryTxs }

NewConfirmed ==
    /\ ctor = "default"
    /\ \E t \in EntryBytes, p \in Proofs, h \in Headers :
         entry' = double_entry3(t, p, h)
    /\ ctor' = "confirmed"
    /\ answer' = NoAnswer
    /\ UNCHANGED <<other, graphVars, ruleVars, wifVars>>

NewUnconfirmed ==
    /\ ctor = "default"
    /\ \E t \in EntryBytes : entry' = double_entry1(t)
    /\ ctor' = "unconfirmed"
    /\ answer' = NoAnswer
    /\ UNCHANGED <<other, graphVars, ruleVars, wifVars>>

AskConfirmed ==
    /\ answer.asked = "none"
    /\ answer' = [asked     |-> "confirmed",
                  valid     |-> double_entry_valid(entry),
                  confirmed |-> double_entry_confirmed(entry)]
    /\ UNCHANGED <<entry, other, ctor, graphVars, ruleVars, wifVars>>

InitConfirm == IdleEntry /\ IdleGraph /\ IdleRule /\ IdleWif

NextConfirm ==
    \/ NewConfirmed
    \/ NewUnconfirmed
    \/ AskConfirmed

SpecConfirm == InitConfirm /\ [][NextConfirm]_vars

----------------------------------------------------------------------------
(* Ordering: two records are compared with the relational operators *)

OrderHeaders ==
    {DefaultHeader} \cup
      { h \in Headers : /\ h.Version \in {1, 2} /\ h.MerkleRoot \in {1, 2}
                        /\ h.Target = 2 }

OrderProofs ==
    {DefaultProof} \cup { p \in Proofs : /\ p.Branch.Leaf.Digest = 1
                                         /\ p.Branch.Digests = <<>>
                                         /\ p.Root = 1 }

\* the records compared: confirmed ones, and the unconfirmed one with its
\* default header and proof
OrderEntries ==
    { double_entry3(ptr(<<0, 0>>), p, h) : p \in OrderProofs, h \in OrderHeaders }

Compare ==
    /\ answer.asked = "none"
    /\ answer' = [asked |-> "compare",
                  eq  |-> double_entry_eq(entry, other),
                  ne  |-> double_entry_ne(entry, other),
                  lt  |-> double_entry_lt(entry, other),
                  le  |-> double_entry_le(entry, other),
                  gt  |-> double_entry_gt(entry, other),
                  ge  |-> double_entry_ge(entry, other),
                  rlt |-> double_entry_lt(other, entry)]
    /\ UNCHANGED <<entry, other, ctor, graphVars, ruleVars, wifVars>>

InitOrder ==
    /\ entry \in OrderEntries /\ other \in OrderEntries
    /\ ctor = "confirmed" /\ answer = NoAnswer
    /\ IdleGraph /\ IdleRule /\ IdleWif

NextOrder == Compare

SpecOrder == InitOrder /\ [][NextOrder]_vars

----------------------------------------------------------------------------
(* Spend graphs: a vertex is built once, by make_vertex from the ledger or *)
(* by its public constructor, and then asked prevouts() and spent()        *)

\* the transactions the inputs refer to: no inputs, one or two outputs
DepTxs ==
    { [Inputs |-> <<>>, Outputs |-> <<Output(v)>>] : v \in 1..MaxValue }
      \cup {[Inputs |-> <<>>, Outputs |-> <<Output(1), Output(MaxValue)>>]}

DepEntries == { double_entry1(ptr(transaction_write(tx))) : tx \in DepTxs }

\* a ledger stores a transaction under its id and nothing under the ids it
\* does not know
Ledgers ==
    { L \in [TxIds -> DepEntries \cup {double_entry0}] :
        \A k \in TxIds : double_entry_valid(L[k]) => double_entry_id(L[k]) = k }

OutIndices == {0, 1}

InputLists ==
    UNION { [1..n -> { Input(r, i) : r \in TxIds, i \in OutIndices }] :
              n \in 0..MaxInputs }

\* the records a vertex is built for: bytes present, since make_vertex and
\* prevouts dereference them
VertexEntries ==
    { double_entry1(ptr(transaction_write([Inputs |-> ins, Outputs |-> <<Output(1)>>]))) :
        ins \in InputLists }

\* the maps handed to the constructor of vertex: any record under any key
CtorMaps ==
    {EmptyMap} \cup
      { [k \in {id} |-> e] : id \in TxIds, e \in DepEntries \cup {double_entry0} }

MakeVertex ==
    /\ built = "default"
    /\ \E d \in VertexEntries : vert' = make_vertex(d)
    /\ built' = "make_vertex"
    /\ UNCHANGED <<Ledger, edges, total, entryVars, ruleVars, wifVars>>

NewVertex ==
    /\ built = "default"
    /\ \E d \in VertexEntries, p \in CtorMaps : vert' = vertex(d, p)
    /\ built' = "vertex"
    /\ UNCHANGED <<Ledger, edges, total, entryVars, ruleVars, wifVars>>

Prevouts ==
    /\ built # "default"
    /\ ~edges.done
    /\ edges' = [done  |-> TRUE,
                 list  |-> vertex_prevouts(vert),
                 valid |-> [k \in 1..Len(vertex_prevouts(vert)) |->
                               prevout_valid(vertex_prevouts(vert)[k])]]
    /\ UNCHANGED <<Ledger, vert, built, total, entryVars, ruleVars, wifVars>>

\* spent() reads the output of every dependency; reading through the null
\* pointer of an invalid dependency is undefined: the call faults or returns
\* some amount
Spent ==
    /\ built # "default"
    /\ ~total.done
    /\ IF spent_defined(vert)
       THEN total' = [done |-> TRUE, fault |-> FALSE, value |-> vertex_spent(vert)]
       ELSE \/ total' = [done |-> TRUE, fault |-> TRUE, value |-> 0]
            \/ \E v \in 0..MaxValue :
                 total' = [done |-> TRUE, fault |-> FALSE, value |-> v]
    /\ UNCHANGED <<Ledger, vert, built, edges, entryVars, ruleVars, wifVars>>

InitGraph ==
    /\ Ledger \in Ledgers
    /\ vert = vertex0 /\ built = "default" /\ edges = NoEdges /\ total = NoTotal
    /\ IdleEntry /\ IdleRule /\ IdleWif

NextGraph ==
    \/ MakeVertex
    \/ NewVertex
    \/ Prevouts
    \/ Spent

SpecGraph == InitGraph /\ [][NextGraph]_vars

----------------------------------------------------------------------------
(* Rules: header::valid is applied to a header, block::valid to a block *)

\* the headers of the blocks: well formed but for the timestamp and the
\* Merkle root
BlockHeaders ==
    { h \in Headers : h.Version = 1 /\ h.Target = MaxDigest + 1 /\ h.Nonce = 0 }

\* the transactions of the blocks: without inputs, as a coinbase is, or
\* with one input
BlockTxs ==
    { transaction_write(tx) : tx \in EntryTxs }
      \cup {transaction_write([Inputs |-> <<Input(1, 0)>>, Outputs |-> <<Output(1)>>])}

Blocks ==
    { [Header |-> header_write(h), Txs |-> txs] :
        h \in BlockHeaders, txs \in UNION { [1..n -> BlockTxs] : n \in 0..MaxTxs } }

HeaderValid ==
    /\ verdict = "none"
    /\ \E h \in Headers : slice' = header_write(h)
    /\ verdict' = IF header_valid_slice(slice') THEN "true" ELSE "false"
    /\ UNCHANGED <<blk, entryVars, graphVars, wifVars>>

BlockValid ==
    /\ verdict = "none"
    /\ \E b \in Blocks : blk' = b
    /\ verdict' = block_valid(blk')
    /\ UNCHANGED <<slice, entryVars, graphVars, wifVars>>

InitRule == IdleEntry /\ IdleGraph /\ IdleRule /\ IdleWif

NextRule ==
    \/ HeaderValid
    \/ BlockValid

SpecRule == InitRule /\ [][NextRule]_vars

----------------------------------------------------------------------------
(* Keys: a secret is written with wif::write and the string read back *)

\* version prefixes: zero, main net, test net
Prefixes == {0, 128, 239}

\* 32 byte secrets: all bytes zero or all bytes 255, but for the first or
\* the last byte
WifSecrets ==
    { [i \in 1..SecretSize |-> IF i = k THEN v ELSE fill] :
        k \in {1, SecretSize}, v \in 0..MaxSecretByte, fill \in {0, 255} }

Write ==
    /\ wifText = <<>>
    /\ \E prefix \in Prefixes, secret \in WifSecrets, compressed \in BOOLEAN :
         wifArg' = [Prefix |-> prefix, Secret |-> secret, Compressed |-> compressed]
    /\ wifText' = wif_write(wifArg'.Prefix, wifArg'.Secret, wifArg'.Compressed)
    /\ UNCHANGED <<wifBack, entryVars, graphVars, ruleVars>>

Read ==
    /\ wifText # <<>>
    /\ ~wifBack.read
    /\ wifBack' = [read  |-> TRUE,
                   fault |-> wif_read(wifText).fault,
                   value |-> wif_read(wifText).value]
    /\ UNCHANGED <<wifArg, wifText, entryVars, graphVars, ruleVars>>

InitWif == IdleEntry /\ IdleGraph /\ IdleRule /\ IdleWif

NextWif ==
    \/ Write
    \/ Read

SpecWif == InitWif /\ [][NextWif]_vars

----------------------------------------------------------------------------
(* Claims about double_entry *)

\* the five conditions of confirmation, read off the record's fields
BytesPresent(e) == ~e.Bytes.Null
LeafMatches(e) == transaction_id(e.Bytes.Data) = e.Proof.Branch.Leaf.Digest
RootMatches(e) == e.Proof.Root = e.Header.MerkleRoot

\* C1: a record built with the confirmed constructor is confirmed() exactly
\* when its bytes are present, its header is valid, the id of the bytes is
\* the proof's leaf digest, the proof is valid and the proof's root is the
\* header's MerkleRoot; so one false condition alone makes it unconfirmed.
C1_ConfirmedIffAllFive ==
    (ctor = "confirmed" /\ answer.asked = "confirmed") =>
        answer.confirmed =
            (/\ BytesPresent(entry)
             /\ Header_valid(entry.Header)
             /\ LeafMatches(entry)
             /\ proof_valid(entry.Proof)
             /\ RootMatches(entry))

\* a record of the confirmed constructor that confirmed() accepts
C1_Witness ==
    ctor = "confirmed" /\ answer.asked = "confirmed" /\ answer.confirmed

\* C2: a record built with the unconfirmed constructor from a byte sequence
\* is valid() and is not confirmed().
C2_UnconfirmedNeverConfirms ==
    (ctor = "unconfirmed" /\ answer.asked = "confirmed" /\ BytesPresent(entry)) =>
        (answer.valid /\ ~answer.confirmed)

\* an unconfirmed record holding bytes has been asked
C2_Witness ==
    /\ ctor = "unconfirmed" /\ answer.asked = "confirmed"
    /\ BytesPresent(entry) /\ answer.valid

\* C7: a == b holds exactly when neither a < b nor b < a holds, < comparing
\* the headers first and the proof indices only for equal headers; exactly
\* one of a < b, a == b, b < a holds.
C7_Trichotomy ==
    answer.asked = "compare" =>
        /\ answer.eq <=> (~answer.lt /\ ~answer.rlt)
        /\ ~(answer.lt /\ answer.rlt)
        /\ answer.lt =
             (IF entry.Header = other.Header
              THEN entry.Proof.Branch.Leaf.Index < other.Proof.Branch.Leaf.Index
              ELSE header_lt(entry.Header, other.Header))

\* two records of one header ordered by their proof indices
C7_Witness ==
    /\ answer.asked = "compare"
    /\ entry.Header = other.Header
    /\ entry.Proof.Branch.Leaf.Index < other.Proof.Branch.Leaf.Index
    /\ answer.lt /\ ~answer.eq

----------------------------------------------------------------------------
(* Claims about spend graphs *)

\* the inputs of the vertex's own transaction and the record each refers to
InputsOf(v) == transaction_read(v.Entry.Bytes.Data).Inputs
ReferenceOf(v, k) == InputsOf(v)[k].Outpoint.Reference

\* the value of the output the k-th input of v refers to
ReferencedValue(v, k) ==
    double_entry_output(map_at(v.Previous, ReferenceOf(v, k)),
                        InputsOf(v)[k].Outpoint.Index).Value

\* C3: spent() is the sum, over all SpendEdges, of the value of the output
\* each edge refers to.  The lambda of vertex::spent drops its accumulator,
\* so the code returns the value of the last edge alone.
C3_SpentIsSum ==
    (total.done /\ ~total.fault /\ spent_defined(vert)) =>
        total.value =
            SumSeq([k \in 1..Len(InputsOf(vert)) |-> ReferencedValue(vert, k)])

\* C4: a SpendEdge of a spend graph is valid() exactly when its dependency
\* record is valid and the input's outpoint id is the id of the dependency
\* record's bytes.  prevouts() sets the key of the edge from the outpoint
\* itself, so the code's comparison never fails.
C4_EdgeValidIffIdMatches ==
    edges.done =>
        \A k \in 1..Len(edges.list) :
            edges.valid[k] <=>
                /\ double_entry_valid(edges.list[k].Previous.Value)
                /\ edges.list[k].Input.Outpoint.Reference
                     = transaction_id(edges.list[k].Previous.Value.Bytes.Data)

\* C5: prevouts() has one SpendEdge per input, the k-th edge carrying the
\* k-th input together with the record the map stores under that input's
\* outpoint id.
C5_OneEdgePerInput ==
    edges.done =>
        /\ Len(edges.list) = Len(InputsOf(vert))
        /\ \A k \in 1..Len(InputsOf(vert)) :
             /\ edges.list[k].Input = InputsOf(vert)[k]
             /\ edges.list[k].Previous.Key = ReferenceOf(vert, k)
             /\ ReferenceOf(vert, k) \in DOMAIN vert.Previous =>
                  edges.list[k].Previous.Value = vert.Previous[ReferenceOf(vert, k)]

\* two different inputs, both resolved by the map, each on its own edge
C5_Witness ==
    /\ edges.done
    /\ Len(edges.list) = 2
    /\ edges.list[1].Input # edges.list[2].Input
    /\ edges.list[1].Previous.Value # edges.list[2].Previous.Value
    /\ \A k \in 1..2 : double_entry_valid(edges.list[k].Previous.Value)

\* C6: the map make_vertex builds has the distinct ids the inputs refer to
\* as its keys and no others, each holding what transaction() returned: an
\* id the ledger does not know is present with an invalid record.
C6_MapCoversReferencedIds ==
    built = "make_vertex" =>
        /\ DOMAIN vert.Previous =
             { ReferenceOf(vert, k) : k \in 1..Len(InputsOf(vert)) }
        /\ \A id \in DOMAIN vert.Previous : vert.Previous[id] = Ledger[id]

\* two inputs sharing one id the ledger does not know: a single entry,
\* holding an invalid record
C6_Witness ==
    /\ built = "make_vertex"
    /\ Len(InputsOf(vert)) = 2
    /\ ReferenceOf(vert, 1) = ReferenceOf(vert, 2)
    /\ InputsOf(vert)[1] # InputsOf(vert)[2]
    /\ ~double_entry_valid(Ledger[ReferenceOf(vert, 1)])
    /\ Cardinality(DOMAIN vert.Previous) = 1
    /\ ~double_entry_valid(vert.Previous[ReferenceOf(vert, 1)])

----------------------------------------------------------------------------
(* Claims about the header rule and the block rule *)

\* C9: header::valid on 80 bytes is true exactly when the structural check
\* (version >= 1, well formed Merkle root, timestamp not the zero value)
\* and the proof of work check on the same bytes both pass; a zero
\* timestamp alone makes it false.
C9_HeaderValidIffBoth ==
    slice # <<>> =>
        /\ (verdict = "true") <=>
             /\ header_read(slice).Version >= 1
             /\ header_read(slice).MerkleRoot # 0
             /\ header_read(slice).Timestamp # 0
             /\ work_candidate_valid(slice)
        /\ verdict \in {"true", "false"}
        /\ header_read(slice).Timestamp = 0 => verdict = "false"

\* a header rejected for its zero timestamp alone
C9_Witness ==
    /\ slice # <<>>
    /\ verdict = "false"
    /\ header_read(slice).Timestamp = 0
    /\ header_read(slice).Version >= 1
    /\ header_read(slice).MerkleRoot # 0
    /\ work_candidate_valid(slice)

\* the three kinds of block the block rule is to reject
NoTransactions(b) == Len(b.Txs) = 0
FirstNotCoinbase(b) ==
    Len(b.Txs) > 0 /\ transaction_read(b.Txs[1]).Inputs # <<>>
MerkleMismatch(b) ==
    Len(b.Txs) > 0 /\ header_merkle_root(b.Header) # merkle_root(b.Txs)

\* C8 as stated: block::valid returns false, a boolean and no fault, for a
\* block without transactions, for a block whose first transaction is no
\* coinbase, and for a block whose recomputed Merkle root differs from the
\* header's.
C8_RejectsWithFalse ==
    (blk # NoBlock /\ (NoTransactions(blk) \/ FirstNotCoinbase(blk) \/ MerkleMismatch(blk)))
        => verdict = "false"

\* C8 as amended: with block::header, block::transactions,
\* transaction::coinbase and transaction::valid as they are in
\* timechain.cpp, block::valid returns no boolean for any block, those
\* three kinds included: the call ends with the unimplemented exception
\* of block::header, and so never returns true.
C8_EndsUnimplemented ==
    blk # NoBlock => verdict = "unimplemented"

\* a block without transactions and a header that header::valid accepts
C8_Witness ==
    /\ blk # NoBlock
    /\ NoTransactions(blk)
    /\ header_valid_slice(blk.Header)
    /\ verdict = "unimplemented"

----------------------------------------------------------------------------
(* Claims about the key converter *)

\* C10: wif::read of the string wif::write made of a prefix, a 32 byte
\* secret and a compression flag returns that prefix, that secret and that
\* flag.
C10_RoundTrip ==
    wifBack.read =>
        /\ ~wifBack.fault
        /\ wifBack.value.Prefix = wifArg.Prefix
        /\ wifBack.value.Secret = wifArg.Secret
        /\ wifBack.value.Compressed = wifArg.Compressed

\* a compressed key with a zero prefix and a secret that is not zero, read
\* back
C10_Witness ==
    /\ wifBack.read
    /\ wifArg.Compressed /\ wifBack.value.Compressed
    /\ wifArg.Prefix = 0
    /\ wifArg.Secret # Zeros(SecretSize)
    /\ wifBack.value.Secret = wifArg.Secret

====
